---------------------------- MODULE Spec2Model ----------------------------
(***************************************************************************)
(* pyLoadBalancer: the server pool (load_balancer/server_pool.py), the     *)
(* request forwarder (load_balancer/balancer.py) and the health checker    *)
(* (load_balancer/utils/health_checker.py) as one state machine.           *)
(*                                                                         *)
(* Scheduling: everything runs on one asyncio event loop.  A task gives up *)
(* control only at an await that really suspends (network I/O, the         *)
(* interval wait).  The pool's asyncio.Lock is never held across such an   *)
(* await, so acquiring it never suspends: every pool method, sync or       *)
(* async, is one atomic step, and so is everything a task does between two *)
(* I/O waits.                                                              *)
(***************************************************************************)
EXTENDS Integers, Sequences, FiniteSets, TLC

\* ------------------------------------------------------------- bounds --
NumServers == 2
MaxInit == 2
MaxCalls == 4
MaxThreshold == 2

\* Backend URLs: the first NumServers of these names.
ServerNames == <<"A", "B", "C", "D", "E">>

Servers == {ServerNames[i] : i \in 1..NumServers}

\* The backend lists a pool can be constructed from: any list, duplicates
\* and the empty list included (ServerPool.__init__ checks nothing).
RECURSIVE SeqsUpTo(_, _)
SeqsUpTo(S, n) ==
    IF n = 0 THEN {<<>>}
    ELSE LET shorter == SeqsUpTo(S, n - 1)
         IN  shorter \cup {Append(q, x) : q \in {s \in shorter : Len(s) = n - 1}, x \in S}

InitialLists == SeqsUpTo(Servers, MaxInit)

\* ------------------------------------------------ Python dict and deque --
\* A dict is the sequence of its <<key, value>> items in insertion order.
DictHas(d, k) == \E i \in DOMAIN d : d[i][1] = k

DictGet(d, k) ==
    IF DictHas(d, k) THEN (LET i == CHOOSE j \in DOMAIN d : d[j][1] = k IN d[i][2])
    ELSE "None"

\* d[k] = v: an existing key keeps its position, a new key goes last.
DictSet(d, k, v) ==
    IF DictHas(d, k) THEN [i \in DOMAIN d |-> IF d[i][1] = k THEN <<k, v>> ELSE d[i]]
    ELSE Append(d, <<k, v>>)

DictPop(d, k) == SelectSeq(d, LAMBDA it : it[1] # k)

DictKeys(d) == [i \in DOMAIN d |-> d[i][1]]

RECURSIVE DictFromKeys(_, _)
DictFromKeys(keys, v) ==
    IF keys = <<>> THEN <<>>
    ELSE LET front == DictFromKeys(SubSeq(keys, 1, Len(keys) - 1), v)
         IN  DictSet(front, keys[Len(keys)], v)

Range(q) == {q[i] : i \in DOMAIN q}

\* deque.rotate(-1): the first element moves to the end.
Rotate(q) == IF q = <<>> THEN q ELSE Append(Tail(q), Head(q))

\* deque.remove(x) under contextlib.suppress(ValueError): the FIRST
\* occurrence goes, nothing happens when there is none.
RemoveFirst(q, x) ==
    IF x \notin Range(q) THEN q
    ELSE LET i == CHOOSE j \in DOMAIN q : q[j] = x /\ \A k \in 1..(j - 1) : q[k] # x
         IN  SubSeq(q, 1, i - 1) \o SubSeq(q, i + 1, Len(q))

\* ------------------------------------------------------------ ServerPool --
\* A pool value: the health mapping and the healthy ring.
MkPool(h, q) == [server_health |-> h, healthy_servers |-> q]

ServerPool(servers) == MkPool(DictFromKeys(servers, TRUE), servers)

\* get_next_server / get_next_server_async: the returned URL ("None" for
\* an empty ring) and the pool afterwards.
\* Not the program: a selection that gives up on a ring of one.
NextServerResult_NoneOnLast(p) ==
    IF Len(p.healthy_servers) <= 1 THEN "None" ELSE Head(p.healthy_servers)

NextServerResult(p) ==
    IF p.healthy_servers = <<>> THEN "None" ELSE Head(p.healthy_servers)

NextServerPool(p) == MkPool(p.server_health, Rotate(p.healthy_servers))

add_server(p, u) ==
    IF DictHas(p.server_health, u)
    THEN IF DictGet(p.server_health, u) = FALSE
         THEN MkPool(DictSet(p.server_health, u, TRUE),
                     IF u \notin Range(p.healthy_servers)
                     THEN Append(p.healthy_servers, u) ELSE p.healthy_servers)
         ELSE p
    ELSE MkPool(DictSet(p.server_health, u, TRUE), Append(p.healthy_servers, u))

remove_server(p, u) ==
    MkPool(DictPop(p.server_health, u), RemoveFirst(p.healthy_servers, u))

\* ServerPool.is_healthy: "True", "False", or "None" for an unknown URL.
is_healthy(p, u) ==
    IF ~DictHas(p.server_health, u) THEN "None"
    ELSE IF DictGet(p.server_health, u) THEN "True" ELSE "False"

\* Not the program: a pool that puts a recovered URL at the cursor.
mark_healthy_AtCursor(p, u) ==
    MkPool(DictSet(p.server_health, u, TRUE),
           IF u \notin Range(p.healthy_servers)
           THEN <<u>> \o p.healthy_servers ELSE p.healthy_servers)

mark_healthy(p, u) ==
    MkPool(DictSet(p.server_health, u, TRUE),
           IF u \notin Range(p.healthy_servers)
           THEN Append(p.healthy_servers, u) ELSE p.healthy_servers)

mark_unhealthy(p, u) ==
    MkPool(IF DictHas(p.server_health, u) THEN DictSet(p.server_health, u, FALSE)
           ELSE p.server_health,
           RemoveFirst(p.healthy_servers, u))

\* The methods whose body runs inside 'async with self._lock'.
LockedMethods ==
    {"get_next_server_async", "mark_healthy", "mark_unhealthy",
     "get_healthy_server_snapshot", "get_server_health_snapshot"}

TakesLock(op) == op \in LockedMethods

get_healthy_server_snapshot(p) == p.healthy_servers

get_server_health_snapshot(p) == p.server_health

get_all_servers(p) == DictKeys(p.server_health)

get_healthy_servers(p) == p.healthy_servers

\* ------------------------------------------------------- LoadBalancer --
\* What the inbound request carries: no body, or this body.
Bodies == {"None", "payload"}

\* What an outbound request that runs out of time raises: the class the
\* except clause of forward_request names, or asyncio.TimeoutError, the
\* class _probe catches for a timeout of the same kind of request.
TimeoutKinds == {"ClientTimeout", "TimeoutError"}

\* The exception classes an attempt can end with, as the except clauses of
\* forward_request tell them apart; asyncio.TimeoutError is none of the
\* three classes named and is caught as Exception.
ErrorKinds ==
    {"ClientConnectorError", "ClientError", "Exception"} \cup TimeoutKinds

\* The statuses a backend answers with.
BackendStatuses == {200, 500}

NoResponse == [status |-> 0, text |-> "None", from |-> "None"]

ErrorResponse(status, message) == [status |-> status, text |-> message, from |-> "None"]

\* web.Response(status=response.status, ..., body=backend_body): the
\* backend's own status and body.
RelayResponse(status, backend) == [status |-> status, text |-> "backend body", from |-> backend]

\* Not the program: an empty snapshot answered like a refused connection.
NoBackendResponse_BadGateway ==
    ErrorResponse(502, "Bad Gateway: Cannot connect to backend server")

NoBackendResponse == ErrorResponse(503, "Service Unavailable: No backend servers available")

_build_error_response(error) ==
    IF error = "ClientTimeout"
    THEN ErrorResponse(504, "Gateway Timeout: Backend server did not respond in time")
    ELSE IF error = "ClientConnectorError"
    THEN ErrorResponse(502, "Bad Gateway: Cannot connect to backend server")
    ELSE IF error = "ClientError"
    THEN ErrorResponse(502, "Bad Gateway: Error communicating with backend server")
    ELSE IF error = "None"
    THEN ErrorResponse(503, "Service Unavailable: No backend servers available")
    ELSE ErrorResponse(500, "Internal Server Error")

\* Not the program: a loop that runs one iteration more than the snapshot has
\* entries.
LoopHasNext_OneMore(i, snapshot) == i <= Len(snapshot)

\* for _ in range(len(healthy_servers)): whether an iteration is left after i.
LoopHasNext(i, snapshot) == i < Len(snapshot)

\* What every except clause of forward_request does to the pool.
OnAttemptError(p, backend) == mark_unhealthy(p, backend)

\* Not the program: a forwarder that never reads the inbound body.
MustReadBody_Never(cache, inbound) == FALSE

\* if body_cache is None and request.can_read_body
MustReadBody(cache, inbound) == cache = "None" /\ inbound # "None"

\* request_data["data"] of an attempt: the cached body, if there is one.
RequestData(cache) == cache

IdleRequest ==
    [pc |-> "idle", healthy_snapshot |-> <<>>, i |-> 0, backend_url |-> "None",
     last_error |-> "None", inbound |-> "None", body_cache |-> "None",
     response |-> NoResponse]

\* --------------------------------------------------------- HealthChecker --
\* max(1, healthy_threshold) of HealthChecker.__init__
ClampThreshold(t) == IF t >= 1 THEN t ELSE 1

Thresholds == {ClampThreshold(t) : t \in 0..MaxThreshold}

\* Config.health_check_healthy_threshold, health_check_unhealthy_threshold
DefaultHealthyThreshold == 2
DefaultUnhealthyThreshold == 2

ProbeResults == {"ok", "failed"}

\* The counters after one probe of _check_server, and what it asks of the
\* pool: "mark_healthy", "mark_unhealthy" or "none".
\* Not the program: a checker that keeps its success count when it promotes.
SuccessAfter_KeepsCount(sc, ht) == IF sc + 1 >= ht THEN sc ELSE sc + 1

SuccessAfter(sc, ht) == IF sc + 1 >= ht THEN 0 ELSE sc + 1

\* Not the program: the failure count is not reset when the threshold is
\* reached.
FailureAfter_NoReset(fc, ut) == IF fc + 1 >= ut THEN ut ELSE fc + 1

FailureAfter(fc, ut) == IF fc + 1 >= ut THEN 0 ELSE fc + 1

\* Not the program: a checker that promotes on the first successful probe.
CheckDecision_PromotesAtOnce(probe_ok, sc, fc, ht, ut, healthy) ==
    IF probe_ok
    THEN IF healthy # "True" THEN "mark_healthy" ELSE "none"
    ELSE IF fc + 1 >= ut /\ healthy = "True" THEN "mark_unhealthy" ELSE "none"

CheckDecision(probe_ok, sc, fc, ht, ut, healthy) ==
    IF probe_ok
    THEN IF sc + 1 >= ht /\ healthy # "True" THEN "mark_healthy" ELSE "none"
    ELSE IF fc + 1 >= ut /\ healthy = "True" THEN "mark_unhealthy" ELSE "none"

CheckedPool(p, u, decision) ==
    IF decision = "mark_healthy" THEN mark_healthy(p, u)
    ELSE IF decision = "mark_unhealthy" THEN mark_unhealthy(p, u)
    ELSE p

\* ------------------------------------------------------------- state --
VARIABLES
    server_health,        \* ServerPool._server_health
    healthy_servers,      \* ServerPool._healthy_servers
    req,                  \* the forward_request call observed: its locals and where it stands
    healthy_threshold,    \* HealthChecker._healthy_threshold
    unhealthy_threshold,  \* HealthChecker._unhealthy_threshold
    success_counts,       \* HealthChecker._success_counts
    failure_counts,       \* HealthChecker._failure_counts
    task,                 \* HealthChecker._task: "None", or where _run stands
    session,              \* HealthChecker._session is open
    stop_event,           \* HealthChecker._stop_event
    sweep,                \* _check_all_servers: the snapshot's URLs still to probe
    ring0,                \* observer: the ring when the current run of selections began
    sel,                  \* observer: the URLs returned since then, in call order
    mut,                  \* observer: the call that began the current run, and the pool before it
    ret,                  \* observer: what the last call returned, if it was a selection
    call,                 \* observer: the pool method called last, and whether it took the lock
    attempts,             \* observer: the outbound attempts the request has issued so far
    alone,                \* observer: no other task has called the pool since the request arrived
    fail_run,             \* observer: failed probes in a row since the URL was last made healthy
    succ_run,             \* observer: successful probes in a row since the URL last left health
    demoter,              \* observer: whether the checker or another caller last took the URL out of health
    up_win,               \* observer: per URL, the successes counted since each moment it was unhealthy
    down_win,             \* observer: per URL, the failures counted since each moment it was healthy
    due,                  \* observer: the URL and direction of a run completed by the last step
    life                  \* observer: "new", or which of start() and stop() returned last

poolVars == <<server_health, healthy_servers>>
checkerVars == <<healthy_threshold, unhealthy_threshold, success_counts, failure_counts,
                 task, session, stop_event, sweep>>
selVars == <<ring0, sel, mut, ret, call>>
reqObs == <<attempts, alone>>
runVars == <<fail_run, succ_run, demoter>>
winVars == <<up_win, down_win, due>>
lifeVars == <<life>>
vars == <<poolVars, req, checkerVars, selVars, reqObs, runVars, winVars, lifeVars>>

Pool == MkPool(server_health, healthy_servers)

PoolAfter == MkPool(server_health', healthy_servers')

SetPool(p) ==
    /\ server_health' = p.server_health
    /\ healthy_servers' = p.healthy_servers

NoMutation == [op |-> "None", url |-> "None", before |-> MkPool(<<>>, <<>>)]

\* After construction: a pool from any backend list, a health checker not
\* yet started, no request in progress.
Constructed ==
    /\ \E servers \in InitialLists :
        /\ server_health = ServerPool(servers).server_health
        /\ healthy_servers = ServerPool(servers).healthy_servers
        /\ ring0 = servers
    /\ sel = <<>>
    /\ mut = NoMutation
    /\ ret = "n/a"
    /\ call = [op |-> "None", locked |-> TRUE]
    /\ up_win = [u \in Servers |-> {}]
    /\ down_win = [u \in Servers |-> IF is_healthy(Pool, u) = "True" THEN {0} ELSE {}]
    /\ due = <<"None", "None">>
    /\ life = "new"
    /\ req = IdleRequest
    /\ success_counts = [u \in Servers |-> 0]
    /\ failure_counts = [u \in Servers |-> 0]
    /\ task = "None"
    /\ session = FALSE
    /\ stop_event = FALSE
    /\ sweep = <<>>
    /\ attempts = <<>>
    /\ alone = TRUE
    /\ fail_run = [u \in Servers |-> 0]
    /\ succ_run = [u \in Servers |-> 0]
    /\ demoter = [u \in Servers |-> "other"]

\* The health checker configured with any thresholds.
Init ==
    /\ Constructed
    /\ healthy_threshold \in Thresholds
    /\ unhealthy_threshold \in Thresholds

\* The health checker configured as config.py does by default.
InitDefault ==
    /\ Constructed
    /\ healthy_threshold = ClampThreshold(DefaultHealthyThreshold)
    /\ unhealthy_threshold = ClampThreshold(DefaultUnhealthyThreshold)

\* ---------------------------------------------------- ServerPool, called --
GetNextServer ==
    /\ SetPool(IF NextServerResult(Pool) = "None" THEN Pool ELSE NextServerPool(Pool))
    /\ UNCHANGED <<req, checkerVars>>

GetNextServerAsync ==
    /\ SetPool(IF NextServerResult(Pool) = "None" THEN Pool ELSE NextServerPool(Pool))
    /\ UNCHANGED <<req, checkerVars>>

\* The snapshot reads: a copy is returned, nothing changes.
GetHealthyServerSnapshot ==
    /\ get_healthy_server_snapshot(Pool) = healthy_servers
    /\ UNCHANGED <<poolVars, req, checkerVars>>

GetServerHealthSnapshot ==
    /\ get_server_health_snapshot(Pool) = server_health
    /\ UNCHANGED <<poolVars, req, checkerVars>>

AddServer(u) ==
    /\ SetPool(add_server(Pool, u))
    /\ UNCHANGED <<req, checkerVars>>

RemoveServer(u) ==
    /\ SetPool(remove_server(Pool, u))
    /\ UNCHANGED <<req, checkerVars>>

MarkHealthy(u) ==
    /\ SetPool(mark_healthy(Pool, u))
    /\ UNCHANGED <<req, checkerVars>>

MarkUnhealthy(u) ==
    /\ SetPool(mark_unhealthy(Pool, u))
    /\ UNCHANGED <<req, checkerVars>>

\* --------------------------------------------- forward_request, by steps --
\* The head of the retry loop, entered with the pool as p: the next
\* iteration up to its first wait, or the end of the loop.
AdvancePool(rec, p) ==
    IF LoopHasNext(rec.i, rec.healthy_snapshot) /\ NextServerResult(p) # "None"
    THEN NextServerPool(p)
    ELSE p

AdvanceReq(rec, p) ==
    IF LoopHasNext(rec.i, rec.healthy_snapshot) /\ NextServerResult(p) # "None"
    THEN [rec EXCEPT !.i = @ + 1,
                     !.backend_url = NextServerResult(p),
                     !.pc = IF MustReadBody(rec.body_cache, rec.inbound)
                            THEN "read" ELSE "send"]
    ELSE [rec EXCEPT !.pc = "done", !.response = _build_error_response(rec.last_error)]

\* A request arrives: the snapshot, and with a non-empty one the first
\* selection, up to the first wait.
Arrive(body) ==
    /\ req.pc = "idle"
    /\ LET snapshot == healthy_servers
           rec == [IdleRequest EXCEPT !.healthy_snapshot = snapshot, !.inbound = body]
       IN  IF snapshot = <<>>
           THEN /\ req' = [rec EXCEPT !.pc = "done", !.response = NoBackendResponse]
                /\ UNCHANGED poolVars
           ELSE /\ req' = AdvanceReq(rec, Pool)
                /\ SetPool(AdvancePool(rec, Pool))
    /\ UNCHANGED checkerVars

\* await request.read() ends: with the body, or with an exception, which
\* the last except clause takes.
ReadBody(ok) ==
    /\ req.pc = "read"
    /\ IF ok
       THEN /\ req' = [req EXCEPT !.body_cache = req.inbound, !.pc = "send"]
            /\ UNCHANGED poolVars
       ELSE LET rec == [req EXCEPT !.last_error = "Exception"]
                p == OnAttemptError(Pool, rec.backend_url)
            IN  /\ req' = AdvanceReq(rec, p)
                /\ SetPool(AdvancePool(rec, p))
    /\ UNCHANGED checkerVars

\* The attempt raises: the matching except clause, then the loop goes on.
Fail(kind) ==
    /\ req.pc = "send"
    /\ LET rec == [req EXCEPT !.last_error = kind]
           p == OnAttemptError(Pool, rec.backend_url)
       IN  /\ req' = AdvanceReq(rec, p)
           /\ SetPool(AdvancePool(rec, p))
    /\ UNCHANGED checkerVars

\* Not the program: a forwarder that treats a 5xx answer as a failed attempt.
Respond_Retries5xx(status) ==
    IF status >= 500
    THEN Fail("ClientError")
    ELSE /\ req.pc = "send"
         /\ req' = [req EXCEPT !.pc = "done",
                               !.response = RelayResponse(status, req.backend_url)]
         /\ UNCHANGED <<poolVars, checkerVars>>

\* The backend answers, with any status: the answer is relayed.
Respond(status) ==
    /\ req.pc = "send"
    /\ req' = [req EXCEPT !.pc = "done",
                          !.response = RelayResponse(status, req.backend_url)]
    /\ UNCHANGED <<poolVars, checkerVars>>

\* The handler has returned its response; the next request can arrive.
Finish ==
    /\ req.pc = "done"
    /\ req' = IdleRequest
    /\ UNCHANGED <<poolVars, checkerVars>>

\* ------------------------------------------------ HealthChecker, by steps --
Start ==
    /\ task = "None"
    /\ stop_event' = FALSE
    /\ session' = TRUE
    /\ task' = "scheduled"
    /\ UNCHANGED <<poolVars, req, healthy_threshold, unhealthy_threshold,
                   success_counts, failure_counts, sweep>>

\* stop(): without a task it returns at once; otherwise the cancelled
\* task ends at the await it stands at and the session is closed.
Stop ==
    IF task = "None"
    THEN UNCHANGED <<poolVars, req, checkerVars>>
    ELSE /\ stop_event' = TRUE
         /\ task' = "None"
         /\ sweep' = <<>>
         /\ session' = FALSE
         /\ UNCHANGED <<poolVars, req, healthy_threshold, unhealthy_threshold,
                        success_counts, failure_counts>>

\* _run enters _check_all_servers: the snapshot of the known URLs.
SweepStart ==
    /\ task \in {"scheduled", "waiting"}
    /\ ~stop_event
    /\ sweep' = DictKeys(server_health)
    /\ task' = IF server_health = <<>> THEN "waiting" ELSE "probing"
    /\ UNCHANGED <<poolVars, req, healthy_threshold, unhealthy_threshold,
                   success_counts, failure_counts, session, stop_event>>

\* _probe: without a session no request is made and the probe has failed.
_probe(has_session, res) == IF ~has_session THEN "failed" ELSE res

\* _check_server for the next URL of the sweep, its probe ending with res.
CheckServer(res) ==
    /\ task = "probing"
    /\ LET u == Head(sweep)
           result == _probe(session, res)
           decision == CheckDecision(result = "ok", success_counts[u], failure_counts[u],
                                     healthy_threshold, unhealthy_threshold,
                                     is_healthy(Pool, u))
       IN  /\ success_counts' = [success_counts EXCEPT
                  ![u] = IF result = "ok" THEN SuccessAfter(@, healthy_threshold) ELSE 0]
           /\ failure_counts' = [failure_counts EXCEPT
                  ![u] = IF result = "ok" THEN 0 ELSE FailureAfter(@, unhealthy_threshold)]
           /\ SetPool(CheckedPool(Pool, u, decision))
    /\ sweep' = Tail(sweep)
    /\ task' = IF Tail(sweep) = <<>> THEN "waiting" ELSE "probing"
    /\ UNCHANGED <<req, healthy_threshold, unhealthy_threshold, session, stop_event>>

\* _probe raises something it does not catch: _run logs it and ends.
ProbeRaises ==
    /\ task = "probing"
    /\ task' = "None"
    /\ sweep' = <<>>
    /\ UNCHANGED <<poolVars, req, healthy_threshold, unhealthy_threshold,
                   success_counts, failure_counts, session, stop_event>>

\* stop() by steps. Its first part, up to 'await self._task': without a task
\* it returns at once; otherwise the stop signal is set and the task is
\* cancelled.
StopCall ==
    IF task = "None"
    THEN UNCHANGED <<poolVars, req, checkerVars>>
    ELSE /\ stop_event' = TRUE
         /\ UNCHANGED <<poolVars, req, healthy_threshold, unhealthy_threshold,
                        success_counts, failure_counts, task, session, sweep>>

\* Not the program: the task takes the cancellation for the end of the
\* interval and goes back to waiting.
TaskCancelled_WaitsOn ==
    /\ stop_event
    /\ task # "None"
    /\ task' = "waiting"
    /\ sweep' = <<>>
    /\ UNCHANGED <<poolVars, req, healthy_threshold, unhealthy_threshold,
                   success_counts, failure_counts, session, stop_event>>

\* The cancelled task is resumed: CancelledError is raised at the await it
\* stands at, the probe's or the interval's, and _run re-raises it (an
\* interval wait that returns instead finds the stop signal set and leaves
\* the loop): the task has ended.
TaskCancelled ==
    /\ stop_event
    /\ task # "None"
    /\ task' = "None"
    /\ sweep' = <<>>
    /\ UNCHANGED <<poolVars, req, healthy_threshold, unhealthy_threshold,
                   success_counts, failure_counts, session, stop_event>>

\* The rest of stop(), once the awaited task has ended: the task reference
\* is dropped and the session closed.
StopReturn ==
    /\ stop_event
    /\ task = "None"
    /\ session' = FALSE
    /\ UNCHANGED <<poolVars, req, healthy_threshold, unhealthy_threshold,
                   success_counts, failure_counts, task, stop_event, sweep>>

\* ------------------------------------------------------------ observers --
\* Observers record what has happened; no action reads them.

\* A selection extends the current run (a full log starts a new run at the
\* ring as it is now); any other call ends the run.
ObserveCall(op) == call' = [op |-> op, locked |-> TakesLock(op)]

\* A snapshot is read: the run of selections goes on.
ObserveRead(op) == ObserveCall(op) /\ UNCHANGED <<ring0, sel, mut, ret>>

ObserveSelection(op) ==
    /\ ObserveCall(op)
    /\ ret' = NextServerResult(Pool)
    /\ IF NextServerResult(Pool) = "None" THEN UNCHANGED <<ring0, sel, mut>>
       ELSE IF Len(sel) < MaxCalls
            THEN /\ sel' = Append(sel, NextServerResult(Pool))
                 /\ UNCHANGED <<ring0, mut>>
            ELSE /\ ring0' = healthy_servers
                 /\ sel' = <<NextServerResult(Pool)>>
                 /\ mut' = NoMutation

\* The call op(u) changes the pool (or leaves it as it is).
ObserveMutation(op, u) ==
    /\ ObserveCall(op)
    /\ ring0' = healthy_servers'
    /\ sel' = <<>>
    /\ mut' = [op |-> op, url |-> u, before |-> Pool]
    /\ ret' = "n/a"

\* The request took a step, in which its attempt in flight (if any) ended
\* with `result` (a response: with `status`): the attempt is closed, and an attempt issued in this step
\* is logged with the body it carries.
ObserveRequest(result, status) ==
    LET closed == IF req.pc = "send"
                  THEN [attempts EXCEPT ![Len(attempts)] =
                           [@ EXCEPT !.result = result, !.status = status]]
                  ELSE attempts
        issued == req'.pc = "send" /\ (req.pc # "send" \/ req'.i # req.i)
    IN  /\ attempts' = IF req'.pc = "idle" THEN <<>>
                       ELSE IF issued
                            THEN Append(closed, [url |-> req'.backend_url,
                                                 data |-> RequestData(req'.body_cache),
                                                 result |-> "pending", status |-> 0])
                            ELSE closed
        /\ alone' = (req.pc = "idle" \/ alone)

\* Another task called the pool.
ObserveOther ==
    /\ attempts' = attempts
    /\ alone' = (req.pc = "idle" /\ alone)

Min(a, b) == IF a <= b THEN a ELSE b

BecameHealthy(p, q, u) == is_healthy(p, u) # "True" /\ is_healthy(q, u) = "True"

LeftHealthy(p, q, u) == is_healthy(p, u) = "True" /\ is_healthy(q, u) # "True"

\* A step of `who` changed the pool; `probed` is the URL whose probe ended
\* in this step with result `res` ("None": no probe ended).
ObserveRuns(who, probed, res) ==
    /\ fail_run' = [u \in Servers |->
          IF BecameHealthy(Pool, PoolAfter, u) \/ (probed = u /\ res = "ok") THEN 0
          ELSE IF probed = u /\ res = "failed"
               THEN Min(fail_run[u] + 1, unhealthy_threshold)
               ELSE fail_run[u]]
    /\ succ_run' = [u \in Servers |->
          IF LeftHealthy(Pool, PoolAfter, u) \/ (probed = u /\ res = "failed") THEN 0
          ELSE IF probed = u /\ res = "ok"
               THEN Min(succ_run[u] + 1, healthy_threshold)
               ELSE succ_run[u]]
    /\ demoter' = [u \in Servers |->
          IF ~LeftHealthy(Pool, PoolAfter, u) THEN demoter[u]
          ELSE IF who = "checker" THEN "checker" ELSE "other"]

\* Every state in which a URL is unhealthy opens a count of its successful
\* probes from there on, ended by a failed probe or a forwarder's
\* mark_unhealthy of it; every state in which it is healthy opens a count
\* of its failed probes, ended by a successful probe or an add_server.
\* `who` called the pool for `target`; the probe of `probed` ended with res.
UpAdvanced(who, target, probed, res, u) ==
    IF (probed = u /\ res = "failed") \/ (who = "forwarder" /\ target = u) THEN {}
    ELSE IF probed = u /\ res = "ok" THEN {c + 1 : c \in up_win[u]}
    ELSE up_win[u]

DownAdvanced(who, target, probed, res, u) ==
    IF (probed = u /\ res = "ok") \/ who = "add" THEN {}
    ELSE IF probed = u /\ res = "failed" THEN {c + 1 : c \in down_win[u]}
    ELSE down_win[u]

ObserveWindows(who, target, probed, res) ==
    /\ up_win' = [u \in Servers |->
          (UpAdvanced(who, target, probed, res, u) \ {healthy_threshold})
             \cup (IF is_healthy(PoolAfter, u) = "False" THEN {0} ELSE {})]
    /\ down_win' = [u \in Servers |->
          (DownAdvanced(who, target, probed, res, u) \ {unhealthy_threshold})
             \cup (IF is_healthy(PoolAfter, u) = "True" THEN {0} ELSE {})]
    /\ due' = IF probed # "None"
                 /\ healthy_threshold \in UpAdvanced(who, target, probed, res, probed)
              THEN <<probed, "up">>
              ELSE IF probed # "None"
                      /\ unhealthy_threshold \in DownAdvanced(who, target, probed, res, probed)
                   THEN <<probed, "down">>
                   ELSE <<"None", "None">>

\* -------------------------------------------------------- specifications --
\* The pool by itself, its API called in any order with any argument.
PoolGetNextServer == GetNextServer /\ ObserveSelection("get_next_server") /\ UNCHANGED <<reqObs, runVars, winVars, lifeVars>>

PoolGetNextServerAsync ==
    GetNextServerAsync /\ ObserveSelection("get_next_server_async") /\ UNCHANGED <<reqObs, runVars, winVars, lifeVars>>

PoolAddServer(u) == AddServer(u) /\ ObserveMutation("add_server", u) /\ UNCHANGED <<reqObs, runVars, winVars, lifeVars>>

PoolRemoveServer(u) == RemoveServer(u) /\ ObserveMutation("remove_server", u) /\ UNCHANGED <<reqObs, runVars, winVars, lifeVars>>

PoolMarkHealthy(u) == MarkHealthy(u) /\ ObserveMutation("mark_healthy", u) /\ UNCHANGED <<reqObs, runVars, winVars, lifeVars>>

PoolMarkUnhealthy(u) == MarkUnhealthy(u) /\ ObserveMutation("mark_unhealthy", u) /\ UNCHANGED <<reqObs, runVars, winVars, lifeVars>>

PoolHealthySnapshot ==
    /\ GetHealthyServerSnapshot
    /\ ObserveRead("get_healthy_server_snapshot")
    /\ UNCHANGED <<reqObs, runVars, winVars, lifeVars>>

PoolHealthSnapshot ==
    /\ GetServerHealthSnapshot
    /\ ObserveRead("get_server_health_snapshot")
    /\ UNCHANGED <<reqObs, runVars, winVars, lifeVars>>

NextPool ==
    \/ PoolHealthySnapshot
    \/ PoolHealthSnapshot
    \/ PoolGetNextServer
    \/ PoolGetNextServerAsync
    \/ \E u \in Servers : PoolAddServer(u)
    \/ \E u \in Servers : PoolRemoveServer(u)
    \/ \E u \in Servers : PoolMarkHealthy(u)
    \/ \E u \in Servers : PoolMarkUnhealthy(u)

SpecPool == InitDefault /\ [][NextPool]_vars

\* One forwarder, observed, against everything else that calls the pool
\* while its request is in progress: the selections of the other
\* forwarders (get_next_server_async), their and the health checker's
\* mark_unhealthy, the health checker's mark_healthy, and administrative
\* add_server / remove_server.
FwdArrive(body) == Arrive(body) /\ ObserveRequest("None", 0) /\ UNCHANGED <<selVars, runVars, winVars, lifeVars>>

FwdReadBody(ok) == ReadBody(ok) /\ ObserveRequest("None", 0) /\ UNCHANGED <<selVars, runVars, winVars, lifeVars>>

FwdRespond(status) ==
    Respond(status) /\ ObserveRequest("response", status) /\ UNCHANGED <<selVars, runVars, winVars, lifeVars>>

FwdFail(kind) == Fail(kind) /\ ObserveRequest(kind, 0) /\ UNCHANGED <<selVars, runVars, winVars, lifeVars>>

FwdFinish == Finish /\ ObserveRequest("None", 0) /\ UNCHANGED <<selVars, runVars, winVars, lifeVars>>

OtherSelects == GetNextServerAsync /\ ObserveOther /\ UNCHANGED <<selVars, runVars, winVars, lifeVars>>

OtherMarksHealthy(u) == MarkHealthy(u) /\ ObserveOther /\ UNCHANGED <<selVars, runVars, winVars, lifeVars>>

OtherMarksUnhealthy(u) == MarkUnhealthy(u) /\ ObserveOther /\ UNCHANGED <<selVars, runVars, winVars, lifeVars>>

OtherAdds(u) == AddServer(u) /\ ObserveOther /\ UNCHANGED <<selVars, runVars, winVars, lifeVars>>

OtherRemoves(u) == RemoveServer(u) /\ ObserveOther /\ UNCHANGED <<selVars, runVars, winVars, lifeVars>>

NextForward ==
    \/ \E body \in Bodies : FwdArrive(body)
    \/ \E ok \in BOOLEAN : FwdReadBody(ok)
    \/ \E status \in BackendStatuses : FwdRespond(status)
    \/ \E kind \in ErrorKinds : FwdFail(kind)
    \/ FwdFinish
    \/ OtherSelects
    \/ \E u \in Servers : OtherMarksHealthy(u)
    \/ \E u \in Servers : OtherMarksUnhealthy(u)
    \/ \E u \in Servers : OtherAdds(u)
    \/ \E u \in Servers : OtherRemoves(u)

SpecForward == InitDefault /\ [][NextForward]_vars

\* The health checker, its effect on each URL observed, against everything
\* else that calls the pool while it runs: the forwarders' selections and
\* their mark_unhealthy of a URL selected earlier, and administrative
\* add_server / remove_server.
HcStart == Start /\ UNCHANGED <<selVars, reqObs, runVars, winVars, lifeVars>>

HcStop == Stop /\ UNCHANGED <<selVars, reqObs, runVars, winVars, lifeVars>>

HcSweepStart == SweepStart /\ UNCHANGED <<selVars, reqObs, runVars, winVars, lifeVars>>

HcCheckServer(res) ==
    /\ CheckServer(res)
    /\ ObserveRuns("checker", Head(sweep), _probe(session, res))
    /\ UNCHANGED <<selVars, reqObs, winVars, lifeVars>>

HcProbeRaises == ProbeRaises /\ UNCHANGED <<selVars, reqObs, runVars, winVars, lifeVars>>

ForwarderSelects == GetNextServerAsync /\ UNCHANGED <<selVars, reqObs, runVars, winVars, lifeVars>>

ForwarderMarksUnhealthy(u) ==
    /\ MarkUnhealthy(u)
    /\ ObserveRuns("forwarder", "None", "None")
    /\ UNCHANGED <<selVars, reqObs, winVars, lifeVars>>

AdminAdds(u) ==
    AddServer(u) /\ ObserveRuns("admin", "None", "None") /\ UNCHANGED <<selVars, reqObs, winVars, lifeVars>>

AdminRemoves(u) ==
    RemoveServer(u) /\ ObserveRuns("admin", "None", "None") /\ UNCHANGED <<selVars, reqObs, winVars, lifeVars>>

NextChecker ==
    \/ HcStart
    \/ HcStop
    \/ HcSweepStart
    \/ \E res \in ProbeResults : HcCheckServer(res)
    \/ HcProbeRaises
    \/ ForwarderSelects
    \/ \E u \in Servers : ForwarderMarksUnhealthy(u)
    \/ \E u \in Servers : AdminAdds(u)
    \/ \E u \in Servers : AdminRemoves(u)

SpecChecker == Init /\ [][NextChecker]_vars

\* The health checker again, observed for how soon it acts on a run of
\* equal probe results, against the same other callers of the pool.
RspStart == Start /\ UNCHANGED <<selVars, reqObs, runVars, winVars, lifeVars>>

RspStop == Stop /\ UNCHANGED <<selVars, reqObs, runVars, winVars, lifeVars>>

RspSweepStart == SweepStart /\ UNCHANGED <<selVars, reqObs, runVars, winVars, lifeVars>>

RspCheckServer(res) ==
    /\ CheckServer(res)
    /\ ObserveWindows("checker", Head(sweep), Head(sweep), _probe(session, res))
    /\ UNCHANGED <<selVars, reqObs, runVars, lifeVars>>

RspProbeRaises == ProbeRaises /\ UNCHANGED <<selVars, reqObs, runVars, winVars, lifeVars>>

RspForwarderSelects == GetNextServerAsync /\ UNCHANGED <<selVars, reqObs, runVars, winVars, lifeVars>>

RspForwarderMarksUnhealthy(u) ==
    /\ MarkUnhealthy(u)
    /\ ObserveWindows("forwarder", u, "None", "None")
    /\ UNCHANGED <<selVars, reqObs, runVars, lifeVars>>

RspAdminAdds(u) ==
    /\ AddServer(u)
    /\ ObserveWindows("add", u, "None", "None")
    /\ UNCHANGED <<selVars, reqObs, runVars, lifeVars>>

RspAdminRemoves(u) ==
    /\ RemoveServer(u)
    /\ ObserveWindows("remove", u, "None", "None")
    /\ UNCHANGED <<selVars, reqObs, runVars, lifeVars>>

NextResponse ==
    \/ RspStart
    \/ RspStop
    \/ RspSweepStart
    \/ \E res \in ProbeResults : RspCheckServer(res)
    \/ RspProbeRaises
    \/ RspForwarderSelects
    \/ \E u \in Servers : RspForwarderMarksUnhealthy(u)
    \/ \E u \in Servers : RspAdminAdds(u)
    \/ \E u \in Servers : RspAdminRemoves(u)

SpecResponse == Init /\ [][NextResponse]_vars

\* The health checker's life: start() and stop() called at any time, the
\* background task sweeping, its probes ending well, badly, or with an
\* error that _probe does not catch.
LifeStart == Start /\ life' = "started" /\ UNCHANGED <<selVars, reqObs, runVars, winVars>>

LifeStop ==
    /\ Stop
    /\ life' = IF life = "new" THEN "new" ELSE "stopped"
    /\ UNCHANGED <<selVars, reqObs, runVars, winVars>>

LifeSweepStart == SweepStart /\ UNCHANGED <<selVars, reqObs, runVars, winVars, lifeVars>>

LifeCheckServer(res) ==
    CheckServer(res) /\ UNCHANGED <<selVars, reqObs, runVars, winVars, lifeVars>>

LifeProbeRaises == ProbeRaises /\ UNCHANGED <<selVars, reqObs, runVars, winVars, lifeVars>>

NextLifecycle ==
    \/ LifeStart
    \/ LifeStop
    \/ LifeSweepStart
    \/ \E res \in ProbeResults : LifeCheckServer(res)
    \/ LifeProbeRaises

SpecLifecycle == Init /\ [][NextLifecycle]_vars

\* stop() taken step by step: between its call and its return the cancelled
\* task is resumed once and ends. A task that stop() has cancelled takes no
\* other step, and start() and stop() are called one after the other (the
\* application calls them from on_startup and on_cleanup). The event loop
\* resumes a cancelled task and the stop() that awaits it.
ShutStart ==
    /\ life # "stopping"
    /\ Start
    /\ life' = "started"
    /\ UNCHANGED <<selVars, reqObs, runVars, winVars>>

ShutStopCall ==
    /\ life # "stopping"
    /\ StopCall
    /\ life' = IF task # "None" THEN "stopping"
               ELSE IF life = "new" THEN "new" ELSE "stopped"
    /\ UNCHANGED <<selVars, reqObs, runVars, winVars>>

ShutTaskCancelled ==
    /\ life = "stopping"
    /\ TaskCancelled
    /\ UNCHANGED <<selVars, reqObs, runVars, winVars, lifeVars>>

ShutStopReturn ==
    /\ life = "stopping"
    /\ StopReturn
    /\ life' = "stopped"
    /\ UNCHANGED <<selVars, reqObs, runVars, winVars>>

ShutSweepStart ==
    /\ life # "stopping"
    /\ SweepStart
    /\ UNCHANGED <<selVars, reqObs, runVars, winVars, lifeVars>>

ShutCheckServer(res) ==
    /\ life # "stopping"
    /\ CheckServer(res)
    /\ UNCHANGED <<selVars, reqObs, runVars, winVars, lifeVars>>

ShutProbeRaises ==
    /\ life # "stopping"
    /\ ProbeRaises
    /\ UNCHANGED <<selVars, reqObs, runVars, winVars, lifeVars>>

NextShutdown ==
    \/ ShutStart
    \/ ShutStopCall
    \/ ShutTaskCancelled
    \/ ShutStopReturn
    \/ ShutSweepStart
    \/ \E res \in ProbeResults : ShutCheckServer(res)
    \/ ShutProbeRaises

SpecShutdown ==
    /\ Init
    /\ [][NextShutdown]_vars
    /\ WF_vars(ShutTaskCancelled)
    /\ WF_vars(ShutStopReturn)

\* ------------------------------------------------------- pool claims --
Count(q, x) == Cardinality({i \in DOMAIN q : q[i] = x})

NoDuplicates(q) == \A i, j \in DOMAIN q : i # j => q[i] # q[j]

HealthySet == {u \in Servers : is_healthy(Pool, u) = "True"}

\* C1: in every reachable state of a pool, the set of URLs in the healthy
\* ring equals the set of URLs whose flag in the health mapping is true.
C1_RingIsHealthySet == Range(healthy_servers) = HealthySet

\* C2: in every reachable state of a pool, the state right after
\* construction included, no URL occurs more than once in the healthy ring.
C2_RingHasNoDuplicate == NoDuplicates(healthy_servers)

\* C3: with K >= 1 URLs in the ring and no mutation in between, successive
\* selections return the ring's URLs in cyclic ring order, one position per
\* call (so the (K+1)-th call returns what the first did), and M calls
\* return each URL floor(M/K) or ceil(M/K) times.
C3_RoundRobin ==
    LET K == Len(ring0)
        M == Len(sel)
    IN  K >= 1 =>
          /\ \A i \in 1..M : sel[i] = ring0[((i - 1) % K) + 1]
          /\ \A u \in Range(ring0) :
                /\ Count(sel, u) >= M \div K
                /\ Count(sel, u) <= (M + K - 1) \div K

\* -------------------------------------------------- forwarder claims --
\* The step in which the attempt in flight ends with a transport error.
AttemptFailed == req.pc = "send" /\ attempts'[Len(attempts)].result \in ErrorKinds

\* The step in which the attempt in flight ends with the backend's answer.
BackendAnswered == req.pc = "send" /\ attempts'[Len(attempts)].result = "response"

AttemptedUrls == [i \in DOMAIN attempts |-> attempts[i].url]

\* C4: when the attempt to the selected backend fails with a transport
\* error, forward_request marks exactly that backend unhealthy and goes on
\* with the next healthy backend; with pool [A, B], A unreachable and B
\* reachable, one request returns B's response and leaves A unhealthy and
\* B healthy.
C4_DemoteAndRetry ==
    /\ [][AttemptFailed =>
            /\ is_healthy(PoolAfter, req.backend_url) # "True"
            /\ DictHas(server_health, req.backend_url)
                  => is_healthy(PoolAfter, req.backend_url) = "False"
            /\ \A u \in Servers \ {req.backend_url} :
                  is_healthy(PoolAfter, u) = is_healthy(Pool, u)
            /\ req'.pc # "done" => is_healthy(PoolAfter, req'.backend_url) = "True"
            /\ (LoopHasNext(req.i, req.healthy_snapshot) /\ healthy_servers' # <<>>)
                  => req'.pc # "done"]_vars
    /\ [](( /\ req.pc = "done"
            /\ alone
            /\ req.healthy_snapshot = <<"A", "B">>
            /\ Len(attempts) = 2
            /\ attempts[1].url = "A" /\ attempts[1].result \in ErrorKinds
            /\ attempts[2].url = "B" /\ attempts[2].result = "response")
           => /\ req.response.status = attempts[2].status
              /\ req.response.from = "B"
              /\ is_healthy(Pool, "A") = "False"
              /\ is_healthy(Pool, "B") = "True")

\* C8: when the backend returns any HTTP response, a 5xx included,
\* forward_request relays its status and body and returns at once: no
\* retry on another backend, no change of any health flag or of the ring.
C8_ResponseRelayed ==
    [][BackendAnswered =>
          /\ req'.pc = "done"
          /\ req'.response.status = attempts'[Len(attempts)].status
          /\ req'.response.text = "backend body"
          /\ req'.response.from = req.backend_url
          /\ Len(attempts') = Len(attempts)
          /\ UNCHANGED poolVars]_vars

C8_Witness ==
    /\ req.pc = "done"
    /\ attempts # <<>>
    /\ attempts[Len(attempts)].result = "response"
    /\ attempts[Len(attempts)].status = 500
    /\ req.response.status = 500

\* C9: a request for which no backend is selected (empty snapshot, or no
\* URL from the first selection) is answered 503 'Service Unavailable: No
\* backend servers available', issues no outbound request and changes no
\* health flag.
C9_NoBackend503 ==
    [][(req.pc # "done" /\ req'.pc = "done" /\ req'.i = 0) =>
          /\ req'.response =
                ErrorResponse(503, "Service Unavailable: No backend servers available")
          /\ attempts' = <<>>
          /\ UNCHANGED poolVars]_vars

C9_Witness ==
    /\ req.pc = "done"
    /\ req.i = 0
    /\ req.healthy_snapshot = <<>>
    /\ req.response.status = 503

\* C10: when every backend refuses the connection and one request is
\* processed with no other activity, the client gets 502 'Bad Gateway:
\* Cannot connect to backend server', every backend of the ring at entry
\* has been attempted once and is marked unhealthy, and the ring is empty.
C10_AllBackendsDown ==
    ( /\ req.pc = "done"
      /\ alone
      /\ attempts # <<>>
      /\ Len(attempts) = req.i
      /\ \A i \in DOMAIN attempts : attempts[i].result = "ClientConnectorError")
    => /\ req.response = ErrorResponse(502, "Bad Gateway: Cannot connect to backend server")
       /\ \A u \in Range(req.healthy_snapshot) :
             /\ Count(AttemptedUrls, u) = 1
             /\ is_healthy(Pool, u) = "False"
       /\ healthy_servers = <<>>

\* ---------------------------------------------- health checker claims --
\* The step in which _check_server(u) ends and has changed the pool's flag
\* of u.
CheckerDemotes(u) ==
    /\ task = "probing" /\ Head(sweep) = u /\ sweep' = Tail(sweep)
    /\ LeftHealthy(Pool, PoolAfter, u)

CheckerPromotes(u) ==
    /\ task = "probing" /\ Head(sweep) = u /\ sweep' = Tail(sweep)
    /\ BecameHealthy(Pool, PoolAfter, u)

\* C5: a healthy backend is never demoted by the health checker on fewer
\* than unhealthy_threshold failed probes in a row, counted since it was
\* last made healthy, whatever the counters hold.
C5_NoEarlyDemotion ==
    [][\A u \in Servers :
          CheckerDemotes(u) => fail_run[u] + 1 >= unhealthy_threshold]_vars

\* C6: the health checker returns an unhealthy backend to rotation only
\* after at least healthy_threshold successful probes in a row since it
\* became unhealthy, whoever demoted it.
C6_NoEarlyPromotion ==
    [][\A u \in Servers :
          (CheckerPromotes(u) /\ is_healthy(Pool, u) = "False")
             => succ_run[u] + 1 >= healthy_threshold]_vars

\* C6, amended: the health checker returns a backend that it demoted
\* itself to rotation only after at least healthy_threshold successful
\* probes in a row since it became unhealthy.
C6_NoEarlyPromotionAfterOwnDemotion ==
    [][\A u \in Servers :
          (CheckerPromotes(u) /\ is_healthy(Pool, u) = "False" /\ demoter[u] = "checker")
             => succ_run[u] + 1 >= healthy_threshold]_vars

C6_Witness ==
    \E u \in Servers :
        /\ healthy_threshold = 2
        /\ demoter[u] = "checker"
        /\ is_healthy(Pool, u) = "True"
        /\ succ_run[u] = 2
        /\ success_counts[u] = 0
        /\ task \in {"probing", "waiting"}

\* C7: right after the last of healthy_threshold successful probes in a
\* row of an unhealthy known backend, with no forwarder demotion in
\* between, the backend is healthy and in the ring; right after the last of
\* unhealthy_threshold failed probes in a row of a healthy backend, with no
\* add in between, it is unhealthy and out of the ring.
C7_BoundedResponse ==
    /\ due[2] = "up" =>
          /\ is_healthy(Pool, due[1]) = "True"
          /\ due[1] \in Range(healthy_servers)
    /\ due[2] = "down" =>
          /\ is_healthy(Pool, due[1]) # "True"
          /\ due[1] \notin Range(healthy_servers)

\* C11: when the retry loop ends without a backend response and the last
\* transport error was a timeout of the outbound request, the client
\* receives 504 'Gateway Timeout: Backend server did not respond in time'
\* and the timed-out backend has been marked unhealthy.
C11_TimeoutIs504 ==
    ( /\ req.pc = "done"
      /\ req.last_error \in TimeoutKinds
      /\ attempts # <<>>
      /\ attempts[Len(attempts)].result \in TimeoutKinds)
    => /\ req.response.status = 504
       /\ req.response.text = "Gateway Timeout: Backend server did not respond in time"
       /\ alone => is_healthy(Pool, attempts[Len(attempts)].url) # "True"

\* ---------------------------------------------- pool operation claims --
\* The ring q without any entry u, the other entries in their order.
Without(q, u) == SelectSeq(q, LAMBDA x : x # u)

\* C12: mark_unhealthy(u) for a known u sets its flag to false and takes u
\* out of the ring, the other entries and their order unchanged, and no
\* selection returns a URL whose flag is false (u, until a later
\* mark_healthy(u) or add_server(u)); for an unknown u, or one already out
\* of the ring, the pool is unchanged.
C12_MarkUnhealthy ==
    /\ mut.op = "mark_unhealthy" =>
          /\ IF DictHas(mut.before.server_health, mut.url)
             THEN /\ is_healthy(Pool, mut.url) = "False"
                  /\ \A v \in Servers \ {mut.url} :
                        is_healthy(Pool, v) = is_healthy(mut.before, v)
                  /\ ring0 = Without(mut.before.healthy_servers, mut.url)
                  /\ mut.url \notin Range(sel)
             ELSE /\ server_health = mut.before.server_health
                  /\ ring0 = mut.before.healthy_servers
          /\ mut.url \notin Range(mut.before.healthy_servers) =>
                /\ server_health = mut.before.server_health
                /\ ring0 = mut.before.healthy_servers
    /\ ret \in Servers => is_healthy(Pool, ret) # "False"

\* C13: mark_healthy(u) sets u's flag to true and, when u is not in the
\* ring, puts it at the tail: with K other URLs in the ring and no further
\* mutation the next K selections return those K URLs in their previous
\* order and the (K+1)-th returns u; when u is in the ring already, the
\* ring is unchanged.
C13_MarkHealthyAtTail ==
    mut.op = "mark_healthy" =>
        LET old == mut.before.healthy_servers
            K == Len(old)
        IN  /\ is_healthy(Pool, mut.url) = "True"
            /\ \A v \in Servers \ {mut.url} :
                  is_healthy(Pool, v) = is_healthy(mut.before, v)
            /\ IF mut.url \in Range(old)
               THEN ring0 = old
               ELSE /\ ring0 = Append(old, mut.url)
                    /\ \A i \in 1..Len(sel) :
                          /\ i <= K => sel[i] = old[i]
                          /\ i = K + 1 => sel[i] = mut.url

C13_Witness ==
    /\ mut.op = "mark_healthy"
    /\ mut.url \notin Range(mut.before.healthy_servers)
    /\ mut.before.healthy_servers # <<>>
    /\ Len(sel) = Len(mut.before.healthy_servers) + 1
    /\ sel[Len(sel)] = mut.url

\* C14: add_server(u) appends an unknown u to the ring tail as a healthy
\* entry, re-marks a known unhealthy u healthy and appends it to the ring,
\* and changes nothing for a known healthy u; remove_server(u) deletes u
\* from the mapping and the ring: afterwards is_healthy(u) is unknown, u is
\* in neither get_all_servers nor get_healthy_servers, and the healthy
\* count is one less if u was healthy.
C14_AddRemove ==
    LET old == mut.before
        u == mut.url
    IN  /\ mut.op = "add_server" =>
              IF is_healthy(old, u) = "True"
              THEN /\ server_health = old.server_health
                   /\ ring0 = old.healthy_servers
              ELSE /\ is_healthy(Pool, u) = "True"
                   /\ ring0 = Append(old.healthy_servers, u)
                   /\ \A v \in Servers \ {u} : is_healthy(Pool, v) = is_healthy(old, v)
        /\ mut.op = "remove_server" =>
              /\ is_healthy(Pool, u) = "None"
              /\ u \notin Range(get_all_servers(Pool))
              /\ u \notin Range(get_healthy_servers(Pool))
              /\ \A v \in Servers \ {u} : is_healthy(Pool, v) = is_healthy(old, v)
              /\ is_healthy(old, u) = "True" =>
                    Len(get_healthy_servers(Pool)) = Len(get_healthy_servers(old)) - 1
              /\ is_healthy(old, u) # "True" =>
                    Len(get_healthy_servers(Pool)) = Len(get_healthy_servers(old))

\* C15: get_next_server / get_next_server_async returns none if and only
\* if the ring is empty at the call, and a call that returns none leaves
\* the ring and the mapping unchanged.
C15_NoneIffEmpty ==
    [][ret' # "n/a" =>
          /\ ret' = "None" <=> healthy_servers = <<>>
          /\ ret' = "None" => UNCHANGED poolVars
          /\ ret' # "None" => ret' \in Range(healthy_servers)]_vars

C15_Witness ==
    /\ ret = "None"
    /\ healthy_servers = <<>>
    /\ server_health # <<>>

\* --------------------------------------------- forwarder claims, more --
\* C16: every outbound attempt of a request carries the same body, the
\* inbound body as read and cached for the first attempt.
C16_BodyReplay ==
    \A i \in DOMAIN attempts :
        /\ attempts[i].data = req.inbound
        /\ attempts[i].data = attempts[1].data

C16_Witness ==
    /\ Len(attempts) >= 2
    /\ attempts[1].url # attempts[2].url
    /\ attempts[1].data = "payload"
    /\ attempts[2].data = "payload"

\* ------------------------------------------------------ lifecycle claims --
\* C17: after stop() has returned on a health checker that was started, it
\* has no background task and no open HTTP client, whatever happened to the
\* task since start(); another stop() changes nothing.
C17_StoppedIsClean ==
    /\ [](life = "stopped" => (task = "None" /\ ~session))
    /\ [][(life = "stopped" /\ life' = "stopped") =>
             UNCHANGED <<poolVars, checkerVars>>]_vars

\* C18: an unexpected error raised while one backend is probed aborts
\* neither the sweep nor the background task: the task lives on and the
\* rest of the sweep is still to be probed.
C18_SweepSurvivesError ==
    [][LifeProbeRaises => (task' # "None" /\ sweep' = Tail(sweep))]_vars

\* -------------------------------------------- health checker claims, more --
\* The flag of u goes from healthy to unhealthy or back in this step.
Flipped(u) == {is_healthy(Pool, u), is_healthy(PoolAfter, u)} = {"True", "False"}

CheckerFlips(u) ==
    /\ task = "probing" /\ Head(sweep) = u /\ sweep' = Tail(sweep)
    /\ Flipped(u)

ForwarderFlips(u) == ForwarderMarksUnhealthy(u) /\ Flipped(u)

\* Right after this step both counters of u are zero, and with thresholds
\* of 2 or more a probe of u with the opposite outcome decides nothing.
SettledAfter(u) ==
    /\ success_counts'[u] = 0
    /\ failure_counts'[u] = 0
    /\ (healthy_threshold >= 2 /\ unhealthy_threshold >= 2) =>
          CheckDecision(is_healthy(PoolAfter, u) # "True",
                        success_counts'[u], failure_counts'[u],
                        healthy_threshold, unhealthy_threshold,
                        is_healthy(PoolAfter, u)) = "none"

\* C19: right after any transition of a backend between healthy and
\* unhealthy, made by the health checker or by a forwarder's reactive
\* demotion, both of its counters are zero, so that with thresholds >= 2 a
\* single probe with the opposite outcome does not reverse the transition.
C19_CountersZeroAfterTransition ==
    [][\A u \in Servers : (CheckerFlips(u) \/ ForwarderFlips(u)) => SettledAfter(u)]_vars

\* C19, amended: the same right after a promotion or demotion made by the
\* health checker itself.
C19_CountersZeroAfterOwnTransition ==
    [][\A u \in Servers : CheckerFlips(u) => SettledAfter(u)]_vars

C19_Witness ==
    \E u \in Servers :
        /\ unhealthy_threshold = 2
        /\ healthy_threshold = 2
        /\ demoter[u] = "checker"
        /\ is_healthy(Pool, u) = "False"
        /\ fail_run[u] = 2
        /\ success_counts[u] = 0
        /\ failure_counts[u] = 0
        /\ succ_run[u] = 0

\* ------------------------------------------------------------ lock claim --
\* C20: every operation that changes the ring or the mapping, and every
\* snapshot read, runs while holding the pool's lock.
C20_AllUnderLock == call.op # "None" => call.locked

\* ------------------------------------------------ forwarder claims, bounds --
\* The loop was left by break: a selection returned no server.
BrokeOut ==
    /\ req.pc = "done"
    /\ req.response.from = "None"
    /\ req.healthy_snapshot # <<>>
    /\ req.i < Len(req.healthy_snapshot)

\* The calls of get_next_server_async the request has made.
Selections == req.i + (IF BrokeOut THEN 1 ELSE 0)

\* C21: one inbound request makes at most N selections and at most N outbound
\* attempts, N being the length of the healthy snapshot taken at its entry,
\* whatever other tasks do to the pool meanwhile.
C21_BoundedBySnapshot ==
    /\ Selections <= Len(req.healthy_snapshot)
    /\ Len(attempts) <= Len(req.healthy_snapshot)

C21_Witness ==
    /\ req.pc = "done"
    /\ ~alone
    /\ Len(req.healthy_snapshot) = 2
    /\ Selections = 2
    /\ Len(attempts) = 2

\* ------------------------------------------------------- stopping claims --
\* The checker probes or calls the pool: a _check_server step.
CheckerActs == \E res \in ProbeResults : ShutCheckServer(res)

\* C22: once stop() is called on a running health checker the background
\* task eventually exits, a task waiting on the interval being woken by the
\* stop signal and not by the end of the interval; from the return of
\* stop() until the next start() the checker has no task, issues no probe
\* and makes no mark_healthy or mark_unhealthy call.
C22_StopEndsTask ==
    /\ (life = "stopping") ~> (task = "None")
    /\ (life = "stopping") ~> (life = "stopped")
    /\ [][life = "stopping" /\ task = "waiting" => ~ShutSweepStart]_vars
    /\ [](life = "stopped" => task = "None")
    /\ [][life = "stopped" => ~CheckerActs /\ ~ShutSweepStart /\ UNCHANGED poolVars]_vars

C22_Witness ==
    /\ life = "stopping"
    /\ stop_event
    /\ task = "waiting"
    /\ \E u \in Servers : success_counts[u] + failure_counts[u] > 0

\* ------------------------------------------------------- removal claims --
\* u is in neither the mapping nor the ring (and so is never selected).
Absent(u) == ~DictHas(server_health, u) /\ u \notin Range(healthy_servers)

\* C23: once remove_server(u) has been called, u is absent from the mapping
\* and from the ring, and stays absent through every step that is not
\* add_server(u), the steps of a sweep or of a forwarder that had u in hand
\* when it was removed included.
C23_RemovedStaysAbsent ==
    /\ [][\A u \in Servers : AdminRemoves(u) => Absent(u)']_vars
    /\ [][\A u \in Servers : Absent(u) /\ ~AdminAdds(u) => Absent(u)']_vars

\* ------------------------------------------- forwarder claims, demotion --
\* A step of the request observed.
ForwarderStep ==
    \/ \E body \in Bodies : FwdArrive(body)
    \/ \E ok \in BOOLEAN : FwdReadBody(ok)
    \/ \E status \in BackendStatuses : FwdRespond(status)
    \/ \E kind \in ErrorKinds : FwdFail(kind)
    \/ FwdFinish

\* The step changed u's health flag or its membership of the ring.
HealthChanged(u) ==
    \/ is_healthy(Pool, u) # is_healthy(PoolAfter, u)
    \/ (u \in Range(healthy_servers)) # (u \in Range(healthy_servers'))

\* C24: a step of forward_request changes the health flag or the ring
\* membership of a backend b only when the outbound request it had issued
\* to b has just failed; a failure before the outbound request is issued,
\* such as an error while the inbound body is read, changes no backend's
\* flag or membership.
C24_DemotesOnlyAfterFailedAttempt ==
    [][ForwarderStep =>
         \A u \in Servers :
            HealthChanged(u) =>
               /\ \E kind \in ErrorKinds : FwdFail(kind)
               /\ attempts # <<>>
               /\ attempts[Len(attempts)].url = u
               /\ attempts[Len(attempts)].result = "pending"]_vars

\* C25: within one inbound request no two outbound attempts go to the same
\* backend, whatever the other forwarders and the health checker do to the
\* pool while the request is in progress.
C25_NoRepeatedBackend ==
    \A i, j \in DOMAIN attempts : i # j => attempts[i].url # attempts[j].url

\* ------------------------------------------------------- counter claims --
\* C26: after every completed _check_server step, for every backend the
\* consecutive-success counter lies in 0 .. healthy_threshold - 1, the
\* consecutive-failure counter in 0 .. unhealthy_threshold - 1, and at most
\* one of the two is not zero, the thresholds being the clamped ones.
C26_CountersInRange ==
    \A u \in Servers :
        /\ success_counts[u] \in 0..(healthy_threshold - 1)
        /\ failure_counts[u] \in 0..(unhealthy_threshold - 1)
        /\ success_counts[u] = 0 \/ failure_counts[u] = 0

C26_Witness ==
    /\ healthy_threshold = 2
    /\ unhealthy_threshold = 2
    /\ task = "waiting"
    /\ \E u, v \in Servers :
          /\ success_counts[u] = 1
          /\ failure_counts[v] = 1

=============================================================================
